---- MODULE Spec2Model ----
(***************************************************************************)
(* NL2SQL: the ambiguity classifier is_ambiguous (src/app.py), the query   *)
(* pipeline write_query / execute_query (src/app.py) and the command-line  *)
(* run main (src/main.py).                                                 *)
(*                                                                         *)
(* A Python str is a sequence of one-character strings, so that split(),   *)
(* lower(), `in` and the regular expressions are computed character by     *)
(* character, as the interpreter computes them.                            *)
(***************************************************************************)
EXTENDS Integers, Sequences, FiniteSets, TLC

VARIABLES
    words,          \* the tokens the command-line question was typed from
    question,       \* args.question: the text, tokens joined by single blanks
    execute,        \* args.execute
    pc,             \* position of the run
    verdict,        \* value returned by is_ambiguous ("none" before the call)
    llm_outcome,    \* what the model chain did in this run
    llm_calls,      \* number of chain.invoke calls that reached the model
    sql_output,     \* main: sql_output
    db_runs,        \* the calls db.run received: <<[sql, outcome]>>
    result_output,  \* main: result_output
    stdout          \* what main printed

vars == <<words, question, execute, pc, verdict, llm_outcome, llm_calls,
          sql_output, db_runs, result_output, stdout>>

----------------------------------------------------------------------------
(* Bounds *)

\* longest question, in typed tokens, given to the classifier
MaxWords == 4
\* longest question, in typed tokens, given to the command line
MaxCliWords == 4
\* longest SQL text, in characters, the model returns
MaxSqlLen == 5

----------------------------------------------------------------------------
(* Characters and str methods *)

LowerLetters == {"a","b","c","d","e","f","g","h","i","j","k","l","m",
                 "n","o","p","q","r","s","t","u","v","w","x","y","z"}
UpperLetters == {"A","B","C","D","E","F","G","H","I","J","K","L","M",
                 "N","O","P","Q","R","S","T","U","V","W","X","Y","Z"}
DigitChars == {"0","1","2","3","4","5","6","7","8","9"}

\* \w
WordChars == LowerLetters \cup UpperLetters \cup DigitChars \cup {"_"}
IsWordChar(c) == c \in WordChars
\* \d
IsDigit(c) == c \in DigitChars
\* \s, and the characters str.split() splits on
IsSpace(c) == c \in {" ", "\t", "\n", "\r"}

UpperSeq == <<"A","B","C","D","E","F","G","H","I","J","K","L","M","N","O","P","Q","R","S","T","U","V","W","X","Y","Z">>
LowerSeq == <<"a","b","c","d","e","f","g","h","i","j","k","l","m","n","o","p","q","r","s","t","u","v","w","x","y","z">>

LowerChar(c) ==
    IF c \in UpperLetters
    THEN LowerSeq[CHOOSE i \in 1..26 : UpperSeq[i] = c]
    ELSE c

\* str.lower()
RECURSIVE LowerFrom(_, _, _)
LowerFrom(s, i, acc) ==
    IF i > Len(s) THEN acc ELSE LowerFrom(s, i + 1, Append(acc, LowerChar(s[i])))

lower(s) == LowerFrom(s, 1, <<>>)

\* str.split(): the maximal runs of non-whitespace characters
RECURSIVE SplitFrom(_, _, _, _)
SplitFrom(s, i, cur, acc) ==
    IF i > Len(s)
    THEN IF cur = <<>> THEN acc ELSE Append(acc, cur)
    ELSE IF IsSpace(s[i])
         THEN SplitFrom(s, i + 1, <<>>, IF cur = <<>> THEN acc ELSE Append(acc, cur))
         ELSE SplitFrom(s, i + 1, Append(cur, s[i]), acc)

split(s) == SplitFrom(s, 1, <<>>, <<>>)

\* " ".join(ws)
RECURSIVE Join(_)
Join(ws) ==
    IF ws = <<>> THEN <<>>
    ELSE IF Len(ws) = 1 THEN ws[1]
    ELSE ws[1] \o <<" ">> \o Join(Tail(ws))

----------------------------------------------------------------------------
(* Regular-expression pieces, as re.search evaluates them *)

\* the literal lit matches s at position i
At(s, i, lit) ==
    /\ i >= 1
    /\ i + Len(lit) - 1 <= Len(s)
    /\ SubSeq(s, i, i + Len(lit) - 1) = lit

WordAt(s, i) == i >= 1 /\ i <= Len(s) /\ IsWordChar(s[i])

\* \b at position i: between s[i-1] and s[i], the ends counting as non-word
Boundary(s, i) == WordAt(s, i - 1) # WordAt(s, i)

\* the positions after \s+ matched from i
AfterSpaces1(s, i) ==
    {j \in (i + 1)..(Len(s) + 1) : \A k \in i..(j - 1) : IsSpace(s[k])}

\* the positions after \s* matched from i
AfterSpaces0(s, i) == {i} \cup AfterSpaces1(s, i)

\* the positions after \d+ matched from i
AfterDigits1(s, i) ==
    {j \in (i + 1)..(Len(s) + 1) : \A k \in i..(j - 1) : IsDigit(s[k])}

\* m in text
Contains(s, m) == \E i \in 1..Len(s) : At(s, i, m)

\* re.search(rf"\b{t}\b", text)
SearchWord(s, t) ==
    \E i \in 1..Len(s) : Boundary(s, i) /\ At(s, i, t) /\ Boundary(s, i + Len(t))

----------------------------------------------------------------------------
(* is_ambiguous *)

min_word_count == 4

vague_terms ==
    { <<"b","e","s","t">>, <<"t","o","p">>, <<"m","o","s","t">>, <<"h","i","g","h","e","s","t">>, <<"l","o","w","e","s","t">>, <<"b","i","g","g","e","s","t">>,
      <<"p","o","p","u","l","a","r">>, <<"t","r","e","n","d","i","n","g">>, <<"l","e","a","d","i","n","g">>, <<"f","a","s","t","e","s","t">> }

\* the terms searched as substrings, without the \b anchors
contains_vague_substring(text) == \E t \in vague_terms : Contains(text, t)

contains_vague(text) == \E t \in vague_terms : SearchWord(text, t)

\* [\w\- ]
IsByPhraseChar(c) == IsWordChar(c) \/ c = "-" \/ c = " "

\* re.search(r"\bby\s+[\w\- ]{2,}", text)
has_by_clause(text) ==
    \E i \in 1..Len(text) :
        /\ Boundary(text, i)
        /\ At(text, i, <<"b","y">>)
        /\ \E j \in AfterSpaces1(text, i + 2) :
              /\ j + 1 <= Len(text)
              /\ IsByPhraseChar(text[j])
              /\ IsByPhraseChar(text[j + 1])

limit_words == { <<"t","o","p">>, <<"b","e","s","t">>, <<"b","o","t","t","o","m">>, <<"h","i","g","h","e","s","t">>, <<"l","o","w","e","s","t">>, <<"f","a","s","t","e","s","t">> }

\* re.search(r"\b(?:top|best|bottom|highest|lowest|fastest)\s+\d+\b", text)
has_numeric_limit(text) ==
    \E i \in 1..Len(text) : \E w \in limit_words :
        /\ Boundary(text, i)
        /\ At(text, i, w)
        /\ \E j \in AfterSpaces1(text, i + Len(w)) :
              \E k \in AfterDigits1(text, j) : Boundary(text, k)

metric_terms ==
    { <<"r","e","v","e","n","u","e">>, <<"s","a","l","e","s">>, <<"p","r","o","f","i","t">>, <<"s","p","e","n","d">>, <<"o","r","d","e","r"," ","v","a","l","u","e">>, <<"a","o","v">>,
      <<"m","a","r","g","i","n">>, <<"g","m","v">>, <<"u","n","i","t","s">>, <<"q","u","a","n","t","i","t","y">>, <<"o","r","d","e","r","s">>, <<"g","r","o","w","t","h">>,
      <<"g","r","e","w">>, <<"i","n","c","r","e","a","s","e">>, <<"d","e","c","r","e","a","s","e">>, <<"r","a","t","e">>, <<"a","v","g">>, <<"a","v","e","r","a","g","e">>,
      <<"m","e","a","n">> }

has_metric_term(text) == \E m \in metric_terms : Contains(text, m)

\* 20\d{2} at position i
Year20At(s, i) ==
    /\ At(s, i, <<"2","0">>)
    /\ i + 3 <= Len(s)
    /\ IsDigit(s[i + 2])
    /\ IsDigit(s[i + 3])

\* \b(20\d{2})\b
time_year(text) ==
    \E i \in 1..Len(text) :
        Boundary(text, i) /\ Year20At(text, i) /\ Boundary(text, i + 4)

\* \bq[1-4]\s*20\d{2}\b
time_quarter(text) ==
    \E i \in 1..Len(text) :
        /\ Boundary(text, i)
        /\ At(text, i, <<"q">>)
        /\ i + 1 <= Len(text)
        /\ text[i + 1] \in {"1", "2", "3", "4"}
        /\ \E j \in AfterSpaces0(text, i + 2) :
              Year20At(text, j) /\ Boundary(text, j + 4)

relative_words == { <<"l","a","s","t">>, <<"p","a","s","t">>, <<"t","h","i","s">> }
period_units == { <<"y","e","a","r">>, <<"q","u","a","r","t","e","r">>, <<"m","o","n","t","h">>, <<"w","e","e","k">>, <<"d","a","y">> }
period_plurals == { <<"d","a","y","s">>, <<"w","e","e","k","s">>, <<"m","o","n","t","h","s">>, <<"y","e","a","r","s">> }

\* \b(last|past|this)\s+(year|quarter|month|week|day|\d+\s+(days|weeks|months|years))\b
time_relative(text) ==
    \E i \in 1..Len(text) : \E r \in relative_words :
        /\ Boundary(text, i)
        /\ At(text, i, r)
        /\ \E j \in AfterSpaces1(text, i + Len(r)) :
              \/ \E u \in period_units :
                    At(text, j, u) /\ Boundary(text, j + Len(u))
              \/ \E k \in AfterDigits1(text, j) :
                    \E l \in AfterSpaces1(text, k) : \E u \in period_plurals :
                        At(text, l, u) /\ Boundary(text, l + Len(u))

\* the positions after [-\s]? matched from i
AfterOptSep(s, i) ==
    {i} \cup {j \in {i + 1} : i <= Len(s) /\ (s[i] = "-" \/ IsSpace(s[i]))}

\* \bmonth[-\s]?over[-\s]?month\b
time_month_over_month(text) ==
    \E i \in 1..Len(text) :
        /\ Boundary(text, i)
        /\ At(text, i, <<"m","o","n","t","h">>)
        /\ \E j \in AfterOptSep(text, i + 5) :
              /\ At(text, j, <<"o","v","e","r">>)
              /\ \E k \in AfterOptSep(text, j + 4) :
                    At(text, k, <<"m","o","n","t","h">>) /\ Boundary(text, k + 5)

\* the period alternative taken out of the (last|past|this) group:
\* \b\d+\s+(days|weeks|months|years)\b matches on its own
has_time_context_bare_period(text) ==
    \/ time_year(text)
    \/ time_quarter(text)
    \/ time_relative(text)
    \/ time_month_over_month(text)
    \/ \E i \in 1..Len(text) :
          /\ Boundary(text, i)
          /\ \E k \in AfterDigits1(text, i) :
                \E l \in AfterSpaces1(text, k) : \E u \in period_plurals :
                    At(text, l, u) /\ Boundary(text, l + Len(u))

has_time_context(text) ==
    \/ time_year(text)
    \/ time_quarter(text)
    \/ time_relative(text)
    \/ time_month_over_month(text)

has_clarity(text) ==
    has_metric_term(text) \/ has_by_clause(text)
        \/ has_numeric_limit(text) \/ has_time_context(text)

\* the vagueness gate taken before the length gate
is_ambiguous_vague_first(q) ==
    LET text == lower(q) IN
    IF ~contains_vague(text) THEN FALSE
    ELSE IF Len(split(text)) < min_word_count THEN TRUE
    ELSE ~has_clarity(text)

is_ambiguous(q) ==
    LET text == lower(q) IN
    IF Len(split(text)) < min_word_count THEN TRUE
    ELSE IF ~contains_vague(text) THEN FALSE
    ELSE ~has_clarity(text)

----------------------------------------------------------------------------
(* Python values, exceptions and the two outcomes of a call *)

PyNone == [t |-> "NoneType"]
PyStr(s) == [t |-> "str", v |-> s]
PyInt(n) == [t |-> "int", v |-> n]
PyList(n) == [t |-> "list", len |-> n]
PyDict(items) == [t |-> "dict", items |-> items]

Return(v) == [raised |-> FALSE, value |-> v]
Raise(e) == [raised |-> TRUE, exc |-> e]

\* obj.get(key, ""), for a mapping
GetItemOrDefault(obj, key) ==
    IF obj.t = "dict"
    THEN IF key \in DOMAIN obj.items
         THEN Return(obj.items[key])
         ELSE Return(PyStr(<<>>))
    ELSE Raise([cls |-> "TypeError", text |-> obj.t \o " is not subscriptable by str"])

\* obj[key]
GetItem(obj, key) ==
    IF obj.t = "dict"
    THEN IF key \in DOMAIN obj.items
         THEN Return(obj.items[key])
         ELSE Raise([cls |-> "KeyError", text |-> "'" \o key \o "'"])
    ELSE Raise([cls |-> "TypeError", text |-> obj.t \o " is not subscriptable by str"])

\* bool(obj)
Truthy(obj) ==
    CASE obj.t = "NoneType" -> FALSE
      [] obj.t = "str" -> Len(obj.v) > 0
      [] obj.t = "int" -> obj.v # 0
      [] obj.t = "list" -> obj.len > 0
      [] obj.t = "dict" -> DOMAIN obj.items # {}

\* obj.split()
SplitMethod(obj) ==
    IF obj.t = "str"
    THEN Return(split(obj.v))
    ELSE Raise([cls |-> "AttributeError",
                text |-> obj.t \o " object has no attribute split"])

\* the classes `except Exception` catches
ExceptionClasses ==
    {"KeyError", "TypeError", "AttributeError", "APIConnectionError",
     "OutputParserException", "OperationalError", "Exception"}

----------------------------------------------------------------------------
(* write_query *)

min_sql_tokens == 3

MalformedMessage ==
    <<"Your question seems a bit unclear. ",
      "Could you please specify what metric or time period you're interested in?">>

MalformedEnvelope == PyDict([error |-> TRUE, message |-> MalformedMessage])

GenerationFailedEnvelope(e) ==
    PyDict([error |-> TRUE,
            message |-> <<"Unable to generate a valid SQL query due to: ", e.text,
                          ". Please rephrase your question or provide more details.">>])

\* the length test off by one: len(result["SQL"].split()) < 2
ValidateSqlOffByOne(result, sql) ==
    IF ~Truthy(sql) THEN Return(MalformedEnvelope)
    ELSE LET toks == SplitMethod(sql) IN
         IF toks.raised THEN toks
         ELSE IF Len(toks.value) < min_sql_tokens - 1 THEN Return(MalformedEnvelope)
         ELSE Return(result)

\* the if of line 106, on the value of result["SQL"]
ValidateSql(result, sql) ==
    IF ~Truthy(sql) THEN Return(MalformedEnvelope)
    ELSE LET toks == SplitMethod(sql) IN
         IF toks.raised THEN toks
         ELSE IF Len(toks.value) < min_sql_tokens THEN Return(MalformedEnvelope)
         ELSE Return(result)

\* the try block, lines 92-115; o is what the chain does in this call
WriteQueryBody(q, o) ==
    IF o.kind # "return" THEN Raise(o.exc)
    ELSE LET sql == GetItem(o.value, "SQL") IN
         IF sql.raised THEN sql ELSE ValidateSql(o.value, sql.value)

\* a handler for the model's own errors only: except (APIConnectionError, OutputParserException)
WriteQueryHandlerNarrow(r) ==
    IF r.raised /\ r.exc.cls \in {"APIConnectionError", "OutputParserException"}
    THEN Return(GenerationFailedEnvelope(r.exc))
    ELSE r

\* except Exception as e, lines 116-123
WriteQueryHandler(r) ==
    IF r.raised /\ r.exc.cls \in ExceptionClasses
    THEN Return(GenerationFailedEnvelope(r.exc))
    ELSE r

write_query(q, o) == WriteQueryHandler(WriteQueryBody(q, o))

\* chain.invoke is reached unless building the chain or its arguments raised
InvokeCalls(q, o) == IF o.kind = "raise_before_invoke" THEN 0 ELSE 1

----------------------------------------------------------------------------
(* execute_query *)

ExecutionFailedEnvelope(e) ==
    PyDict([error |-> TRUE,
            message |-> <<"Query execution failed: ", e.text,
                          ". Please check if your question references valid columns or tables.">>])

\* the try block, lines 140-141; d is what db.run does in this call
ExecuteQueryBody(sql, d) ==
    IF d.kind = "raise" THEN Raise(d.exc)
    ELSE Return(PyDict([result |-> d.raw]))

\* a handler for the store's own error only: except OperationalError
ExecuteQueryHandlerNarrow(r) ==
    IF r.raised /\ r.exc.cls = "OperationalError"
    THEN Return(ExecutionFailedEnvelope(r.exc))
    ELSE r

\* except Exception as e, lines 142-149
ExecuteQueryHandler(r) ==
    IF r.raised /\ r.exc.cls \in ExceptionClasses
    THEN Return(ExecutionFailedEnvelope(r.exc))
    ELSE r

execute_query(sql, d) == ExecuteQueryHandler(ExecuteQueryBody(sql, d))

----------------------------------------------------------------------------
(* The external collaborators *)

NoExc == [cls |-> "none", text |-> ""]

\* the SQL texts the model may put in the SQL field
SqlChars == {"s", " "}
SqlTexts == UNION {[1..n -> SqlChars] : n \in 0..MaxSqlLen}

SqlFieldValues ==
    {PyNone, PyInt(0), PyInt(5), PyList(2)} \cup {PyStr(s) : s \in SqlTexts}

\* what the parsed model output may be
ModelValues ==
    {PyList(1), PyNone, PyDict([query |-> PyStr(<<"s"," ","s"," ","s">>)])}
        \cup {PyDict([SQL |-> v]) : v \in SqlFieldValues}

ChainExceptions ==
    {[cls |-> "APIConnectionError", text |-> "Connection error."],
     [cls |-> "OutputParserException", text |-> "Invalid json output"],
     [cls |-> "Exception", text |-> ""]}

LlmOutcomes ==
    {[kind |-> k, exc |-> e, value |-> PyNone] :
        k \in {"raise_before_invoke", "raise_in_invoke"}, e \in ChainExceptions}
        \cup {[kind |-> "return", exc |-> NoExc, value |-> v] : v \in ModelValues}

DbOutcomes ==
    {[kind |-> "return", exc |-> NoExc, raw |-> "[(1,)]"],
     [kind |-> "return", exc |-> NoExc, raw |-> ""],
     [kind |-> "raise", raw |-> "",
      exc |-> [cls |-> "OperationalError", text |-> "no such table: t"]],
     [kind |-> "raise", raw |-> "", exc |-> [cls |-> "Exception", text |-> ""]]}

----------------------------------------------------------------------------
(* The questions *)

\* typed tokens; the empty token gives leading, trailing and doubled blanks
Vocabulary ==
    { <<>>, <<"s","h","o","w">>, <<"T","o","p">>, <<"m","o","s","t">>, <<"t","o","p","p","e","r">>, <<"5">>, <<"d","a","y","s">>, <<"l","a","s","t">>,
      <<"b","y">>, <<"s","a","l","e","s">>, <<"s","e","p","a","r","a","t","e">>, <<"2","0","2","4">> }

CliVocabulary == { <<"s","h","o","w">>, <<"B","e","s","t">>, <<"s","a","l","e","s">> }

SeqsUpTo(S, n) == UNION {[1..k -> S] : k \in 0..n}

Unset == [t |-> "unset"]
NoOutcome == [kind |-> "none", exc |-> NoExc, value |-> PyNone]

InitCommon ==
    /\ question = Join(words)
    /\ verdict = "none"
    /\ llm_outcome = NoOutcome
    /\ llm_calls = 0
    /\ sql_output = Unset
    /\ db_runs = <<>>
    /\ result_output = Unset
    /\ stdout = <<>>

----------------------------------------------------------------------------
(* The classifier applied to a question *)

InitClassifier ==
    /\ words \in SeqsUpTo(Vocabulary, MaxWords)
    /\ execute = FALSE
    /\ pc = "classify"
    /\ InitCommon

Classify ==
    /\ pc = "classify"
    /\ verdict' = is_ambiguous(question)
    /\ pc' = "classified"
    /\ UNCHANGED <<words, question, execute, llm_outcome, llm_calls, sql_output,
                   db_runs, result_output, stdout>>

NextClassifier == Classify

SpecClassifier == InitClassifier /\ [][NextClassifier]_vars

----------------------------------------------------------------------------
(* main *)

Init ==
    /\ words \in SeqsUpTo(CliVocabulary, MaxCliWords)
    /\ execute \in BOOLEAN
    /\ pc = "main"
    /\ InitCommon

\* lines 27-28: sql_output = write_query(...); print
MainGenerate ==
    /\ pc = "main"
    /\ \E o \in LlmOutcomes :
          LET r == write_query(question, o) IN
          /\ llm_outcome' = o
          /\ llm_calls' = llm_calls + InvokeCalls(question, o)
          /\ IF r.raised
             THEN /\ pc' = "uncaught"
                  /\ UNCHANGED <<sql_output, stdout>>
             ELSE /\ pc' = "generated"
                  /\ sql_output' = r.value
                  /\ stdout' = Append(stdout, <<"Generated SQL:", r.value>>)
    /\ UNCHANGED <<words, question, execute, verdict, db_runs, result_output>>

\* line 31, --execute not given
MainSkipExecute ==
    /\ pc = "generated"
    /\ ~execute
    /\ pc' = "done"
    /\ UNCHANGED <<words, question, execute, verdict, llm_outcome, llm_calls,
                   sql_output, db_runs, result_output, stdout>>

\* lines 31-33: result_output = execute_query(sql_output["SQL"]); print
MainExecute ==
    /\ pc = "generated"
    /\ execute
    /\ LET arg == GetItem(sql_output, "SQL") IN
       IF arg.raised
       THEN /\ pc' = "uncaught"
            /\ UNCHANGED <<db_runs, result_output, stdout>>
       ELSE \E d \in DbOutcomes :
              LET r == execute_query(arg.value, d) IN
              /\ db_runs' = Append(db_runs, [sql |-> arg.value, outcome |-> d])
              /\ IF r.raised
                 THEN /\ pc' = "uncaught"
                      /\ UNCHANGED <<result_output, stdout>>
                 ELSE /\ pc' = "done"
                      /\ result_output' = r.value
                      /\ stdout' = Append(stdout, <<"Query Result:", r.value>>)
    /\ UNCHANGED <<words, question, execute, verdict, llm_outcome, llm_calls,
                   sql_output>>

Next == MainGenerate \/ MainSkipExecute \/ MainExecute

Spec == Init /\ [][Next]_vars

----------------------------------------------------------------------------
(* The question as the user typed it: statements over the typed tokens.   *)
(* The typed tokens are made of letters and digits only, so a token is a  *)
(* whole word of the text.                                                *)

\* the typed tokens, lower-cased
LoweredWords == [i \in 1..Len(words) |-> lower(words[i])]

\* the words of the question, lower-cased, blanks dropped
TypedWords == SelectSeq(LoweredWords, LAMBDA w : w # <<>>)

AllDigits(w) == w # <<>> /\ \A i \in 1..Len(w) : IsDigit(w[i])

IsYearWord(w) == Len(w) = 4 /\ w[1] = "2" /\ w[2] = "0" /\ IsDigit(w[3]) /\ IsDigit(w[4])

IsQuarterWord(w) == Len(w) = 2 /\ w[1] = "q" /\ w[2] \in {"1", "2", "3", "4"}

\* a listed superlative is one of the words tw
VagueWordTyped(tw) == \E i \in 1..Len(tw) : tw[i] \in vague_terms

\* the word "by" with at least two more characters of text after the blank
ByClauseTyped(lw) ==
    \E i \in 1..(Len(lw) - 1) :
        /\ lw[i] = <<"b","y">>
        /\ Len(Join(SubSeq(lw, i + 1, Len(lw)))) >= 2

\* one of ranking, then a number, as the next word
NumberAfter(tw, ranking) ==
    \E i \in 1..(Len(tw) - 1) : tw[i] \in ranking /\ AllDigits(tw[i + 1])

\* a metric term inside a word, or across two words one blank apart
MetricTyped(lw) ==
    \/ \E i \in 1..Len(lw) : \E m \in metric_terms : Contains(lw[i], m)
    \/ \E i \in 1..(Len(lw) - 1) :
          Contains(lw[i] \o <<" ">> \o lw[i + 1], <<"o","r","d","e","r"," ","v","a","l","u","e">>)

YearTyped(tw) ==
    \E i \in 1..Len(tw) :
        \/ IsYearWord(tw[i])
        \/ /\ Len(tw[i]) = 6
           /\ IsQuarterWord(SubSeq(tw[i], 1, 2))
           /\ IsYearWord(SubSeq(tw[i], 3, 6))

\* last/past/this, then a unit or "N days|weeks|months|years"
RelativePeriodTyped(tw) ==
    \E i \in 1..(Len(tw) - 1) :
        /\ tw[i] \in relative_words
        /\ \/ tw[i + 1] \in period_units
           \/ /\ i + 2 <= Len(tw)
              /\ AllDigits(tw[i + 1])
              /\ tw[i + 2] \in period_plurals

\* "N days|weeks|months|years" with nothing required before it
BarePeriodTyped(tw) ==
    \E i \in 1..(Len(tw) - 1) : AllDigits(tw[i]) /\ tw[i + 1] \in period_plurals

MonthOverMonthForms ==
    {<<"m","o","n","t","h">> \o a \o <<"o","v","e","r">> \o b \o <<"m","o","n","t","h">> : a, b \in {<<>>, <<"-">>, <<" ">>}}

MonthOverMonthTyped(lw) ==
    \E i \in 1..Len(lw) : \E j \in i..Len(lw) :
        Join(SubSeq(lw, i, j)) \in MonthOverMonthForms

Classified == pc = "classified"

----------------------------------------------------------------------------
(* Claims about is_ambiguous, checked under SpecClassifier *)

\* C7 as stated: a question with no listed superlative word is classified
\* not ambiguous, whatever its length.
C7_NoSuperlativeNeverAmbiguous ==
    (Classified /\ ~VagueWordTyped(TypedWords)) => verdict = FALSE

\* C7 as amended: a question of at least 4 words with no listed superlative
\* word is classified not ambiguous, whatever else it contains.
C7_NoSuperlativeLongEnoughNotAmbiguous ==
    Classified =>
        LET tw == TypedWords IN
        (Len(tw) >= min_word_count /\ ~VagueWordTyped(tw)) => verdict = FALSE

\* a 4-word question holding "topper", "by" and a metric, classified not ambiguous
C7_Witness ==
    /\ Classified
    /\ words = << <<"s","h","o","w">>, <<"t","o","p","p","e","r">>, <<"b","y">>, <<"s","a","l","e","s">> >>
    /\ verdict = FALSE

\* C8: a question of fewer than 4 words is classified ambiguous, whatever
\* vague terms or clarifiers it contains.
C8_ShortQuestionAmbiguous ==
    (Classified /\ Len(TypedWords) < 4) => verdict = TRUE

\* a 3-word question with a superlative, a numeric limit and a metric
C8_Witness ==
    /\ Classified
    /\ words = << <<"T","o","p">>, <<"5">>, <<"s","a","l","e","s">> >>
    /\ verdict = TRUE

\* C9 as stated: for a question of at least 4 words, ambiguous iff a
\* superlative is present and no clarifier is, the numeric limit being any
\* ranking word followed by a number and the time context including a bare
\* "N days/weeks/months/years".
C9_AmbiguousIffVagueAndNoSpecClarifier ==
    Classified =>
        LET tw == TypedWords
            lw == LoweredWords
        IN  Len(tw) >= 4 =>
              (verdict = (/\ VagueWordTyped(tw)
                          /\ ~ByClauseTyped(lw)
                          /\ ~NumberAfter(tw, vague_terms)
                          /\ ~MetricTyped(lw)
                          /\ ~(YearTyped(tw) \/ RelativePeriodTyped(tw)
                                  \/ BarePeriodTyped(tw) \/ MonthOverMonthTyped(lw))))

\* C9 as amended: for a question of at least 4 words, ambiguous iff a
\* superlative is present and no clarifier is, the numeric limit being one of
\* top, best, bottom, highest, lowest, fastest followed by a number, and the
\* period "N days/weeks/months/years" counting only after last, past or this.
C9_AmbiguousIffVagueAndNoCodeClarifier ==
    Classified =>
        LET tw == TypedWords
            lw == LoweredWords
        IN  Len(tw) >= 4 =>
              (verdict = (/\ VagueWordTyped(tw)
                          /\ ~ByClauseTyped(lw)
                          /\ ~NumberAfter(tw, limit_words)
                          /\ ~MetricTyped(lw)
                          /\ ~(YearTyped(tw) \/ RelativePeriodTyped(tw)
                                  \/ MonthOverMonthTyped(lw))))

\* "most 5 days show": a superlative outside the numeric-limit words, a number
\* and a bare period, classified ambiguous
C9_Witness ==
    /\ Classified
    /\ words = << <<"m","o","s","t">>, <<"5">>, <<"d","a","y","s">>, <<"s","h","o","w">> >>
    /\ verdict = TRUE

----------------------------------------------------------------------------
(* Shapes of the values the pipeline returns *)

\* number of whitespace-separated tokens: the starts of the non-blank runs
TokenCount(s) ==
    Cardinality({i \in 1..Len(s) : ~IsSpace(s[i]) /\ (i = 1 \/ IsSpace(s[i - 1]))})

\* {error: true, message: <non-empty text>}
IsErrorEnvelope(v) ==
    /\ v.t = "dict"
    /\ DOMAIN v.items = {"error", "message"}
    /\ v.items.error = TRUE
    /\ \E i \in 1..Len(v.items.message) : v.items.message[i] # ""

\* a mapping holding a SQL string of at least 3 tokens
IsGeneratedQuery(v) ==
    /\ v.t = "dict"
    /\ "SQL" \in DOMAIN v.items
    /\ v.items.SQL.t = "str"
    /\ TokenCount(v.items.SQL.v) >= 3

WriteQueryCalled == llm_outcome # NoOutcome

\* the model call succeeded and returned a mapping
ModelReturnedMapping == llm_outcome.kind = "return" /\ llm_outcome.value.t = "dict"

\* ... whose SQL field is a string of fewer than 3 tokens (the empty one included)
ModelReturnedShortSql ==
    /\ ModelReturnedMapping
    /\ "SQL" \in DOMAIN llm_outcome.value.items
    /\ llm_outcome.value.items.SQL.t = "str"
    /\ TokenCount(llm_outcome.value.items.SQL.v) < 3

\* ... which has no SQL field
ModelReturnedNoSqlKey ==
    ModelReturnedMapping /\ "SQL" \notin DOMAIN llm_outcome.value.items

----------------------------------------------------------------------------
(* Claims about the pipeline and the command-line run, checked under Spec *)

\* C1: write_query on a question the classifier finds ambiguous never invokes
\* the model: in every run the number of invocations stays zero. (The claim
\* adds that a clarification envelope is returned; the count alone is stated
\* here, so that a violation is a run in which the model was invoked.)
C1_AmbiguousQuestionNeverInvokesModel ==
    (WriteQueryCalled /\ is_ambiguous(question)) => llm_calls = 0

\* C2: the command-line run never ends in an uncaught exception, for every
\* question, --execute flag and outcome of the model and the store.
C2_NoUncaughtException == pc # "uncaught"

\* C3: write_query never raises: whatever the model chain does, it returns a
\* mapping holding a SQL string of at least 3 tokens or an error envelope.
C3_WriteQueryNeverRaises ==
    WriteQueryCalled =>
        /\ sql_output # Unset
        /\ IsGeneratedQuery(sql_output) \/ IsErrorEnvelope(sql_output)

\* the model returned a list, not a mapping, and write_query returned an envelope
C3_Witness ==
    /\ pc = "generated"
    /\ llm_outcome.kind = "return"
    /\ llm_outcome.value = PyList(1)
    /\ IsErrorEnvelope(sql_output)

\* C4: execute_query never raises: a successful run is returned under the
\* key result, a raising store gives an error envelope with a non-empty
\* message that embeds the error text.
C4_ExecuteQueryNeverRaises ==
    db_runs # <<>> =>
        LET d == db_runs[Len(db_runs)].outcome IN
        /\ pc = "done"
        /\ d.kind = "return" => result_output = PyDict([result |-> d.raw])
        /\ d.kind = "raise" =>
              /\ IsErrorEnvelope(result_output)
              /\ result_output.items.message[2] = d.exc.text

\* the store raised an exception with an empty text
C4_Witness ==
    /\ pc = "done"
    /\ db_runs # <<>>
    /\ db_runs[1].outcome.kind = "raise"
    /\ db_runs[1].outcome.exc.text = ""
    /\ IsErrorEnvelope(result_output)

\* C5: a SQL field of fewer than 3 tokens returned by a successful model call
\* is rejected: write_query returns an error envelope, never that mapping.
C5_ShortSqlRejected ==
    ModelReturnedShortSql =>
        /\ IsErrorEnvelope(sql_output)
        /\ sql_output # llm_outcome.value

\* the model returned a SQL field of exactly 2 tokens
C5_Witness ==
    /\ pc = "generated"
    /\ ModelReturnedShortSql
    /\ TokenCount(llm_outcome.value.items.SQL.v) = 2
    /\ IsErrorEnvelope(sql_output)

\* C6: a model result whose SQL field is empty, absent or too short gives the
\* clarification envelope, not the one embedding an exception text.
C6_MalformedResultGetsClarification ==
    (ModelReturnedShortSql \/ ModelReturnedNoSqlKey) =>
        sql_output = MalformedEnvelope

\* C10: db.run is invoked at most once, only with --execute, only after
\* write_query returned, only with a SQL string of at least 3 tokens, and
\* never when write_query returned an error envelope.
C10_StoreRunsOnlyValidatedSql ==
    /\ Len(db_runs) <= 1
    /\ db_runs # <<>> =>
          /\ execute
          /\ WriteQueryCalled
          /\ IsGeneratedQuery(sql_output)
          /\ db_runs[1].sql = sql_output.items.SQL
          /\ db_runs[1].sql.t = "str"
          /\ TokenCount(db_runs[1].sql.v) >= 3
    /\ (sql_output # Unset /\ IsErrorEnvelope(sql_output)) => db_runs = <<>>

\* the store ran the validated SQL of a run with --execute
C10_Witness ==
    /\ pc = "done"
    /\ execute
    /\ Len(db_runs) = 1
    /\ db_runs[1].sql = PyStr(<<"s"," ","s"," ","s">>)

====
